---- MODULE Spec2Model ----
(***************************************************************************)
(* Model of the API test-client core: TokenManager                         *)
(* (src/utils/tokenManager.ts) and APIClient (src/pages/basePage.ts).      *)
(*                                                                         *)
(* The JavaScript run-time is single threaded: a synchronous method        *)
(* (setToken, getToken, clearToken) is one atomic step, and an async       *)
(* method (execute) is cut at its awaits.  The only await of execute that  *)
(* lets other code run for an unbounded time is the transport call         *)
(* request.fetch; while it is pending the clock advances and the token     *)
(* slot may be mutated by other callers.                                   *)
(*                                                                         *)
(* The Logger is an opaque side-effect-only collaborator and is not        *)
(* modelled; payloads are JSON-serialisable values.                        *)
(***************************************************************************)
EXTENDS Integers, Sequences, FiniteSets, TLC

(***************************************************************************)
(* Bounds of the model.                                                    *)
(***************************************************************************)
MaxRetries == 1      \* retryAttempts is a whole number drawn from 0..MaxRetries
MaxSec == 1          \* the clock visits instants within seconds 0..MaxSec
MaxTTL == 1          \* ttlSeconds is drawn from 0..MaxTTL (and the default)
MaxSlashes == 2      \* a base URL ends in 0..MaxSlashes slashes
MaxPathLen == 3      \* an endpoint over the letters / and o has at most MaxPathLen letters

(***************************************************************************)
(* Program constants.                                                      *)
(***************************************************************************)
MsPerSec == 1000
DefaultTTL == 3600
DefaultTimeout == 30000
DefaultBaseURL == "https://api.restful-api.dev"
DefaultRetryAttempts == 1

(***************************************************************************)
(* Input domains.                                                          *)
(***************************************************************************)
\* A nullable value is a sequence of at most one element:
\* Null is JavaScript null / undefined, Some(v) a present value v.
Null == <<>>
Some(v) == <<v>>
Tokens == {"", "t1", "t2"}           \* "" is the falsy token
TTLs == (0..MaxTTL) \cup {DefaultTTL}
\* instants the clock can show: each second boundary and the millisecond
\* before the next one
Instants == {s * MsPerSec + o : s \in 0..MaxSec, o \in {0, MsPerSec - 1}}
TransportErrors == {"ETIMEDOUT", "ECONNREFUSED"}
JsonBody == "{\"token\":\"t1\"}"
TextBody == "<html>"
StatusText(status) ==
    CASE status = 200 -> "OK"
      [] status = 404 -> "Not Found"
      [] status = 500 -> "Internal Server Error"
      [] OTHER -> ""
\* what the transport can deliver: a completed HTTP exchange of any status,
\* a success with either kind of body and an error page of either kind
Response(st, b) == [status |-> st, statusText |-> StatusText(st), body |-> b]
Responses == {Response(200, JsonBody), Response(200, TextBody),
              Response(404, JsonBody), Response(500, TextBody)}
NoHeaders == [h \in {} |-> ""]
CustomHeaders == {NoHeaders,
                  "Authorization" :> "Basic abc",
                  "Content-Type" :> "text/plain"}

VARIABLES
    now,          \* Date.now()
    config,       \* ConfigManager.config
    tokenData,    \* TokenManager.tokenData: Null or Some([token, expiresAt])
    pc,           \* position of the execute call: idle, fetching, returned, thrown
    attempt,      \* execute: let attempt
    lastError,    \* execute: let lastError
    headers,      \* execute: const headers
    startTime,    \* execute: const startTime of the running attempt
    result,       \* the APIResponse returned by execute
    thrown,       \* the error thrown by execute
    \* ---- history variables (observations, not program state) ----
    transportLog, \* outcome of every transport call of this execute call
    calls,        \* number of request.fetch calls issued by this execute call
    sent,         \* headers handed to every request.fetch of this call
    held,         \* the non-expired token held when execute started, else Null
    custom,       \* options.headers the call was started with
    lastMut,      \* last mutation of the slot: none, clear, or set(token, ttl, at)
    emptySet,     \* Some(slot before) after a setToken with an empty token
    \* ---- one call of a function that touches no shared state ----
    arg,          \* the arguments (or the environment) the call is given
    ret,          \* Null before the call, Some(outcome) after it
    \* ---- AuthService ----
    loginPc,      \* login: none, or awaiting its client.post("/login")
    loginResult,  \* outcome of the last login: Null, returned token or threw
    authLog,      \* history: the last login that succeeded or logout
    otherSent     \* history: headers of the last request of another APIClient

vars == <<now, config, tokenData, pc, attempt, lastError, headers, startTime,
          result, thrown, transportLog, calls, sent, held, custom, lastMut,
          emptySet, arg, ret, loginPc, loginResult, authLog, otherSent>>

tokenVars == <<tokenData, lastMut, emptySet>>
pureVars == <<arg, ret>>
authVars == <<loginPc, loginResult, authLog, otherSent>>
callVars == <<pc, attempt, lastError, headers, startTime, result, thrown,
              transportLog, calls, sent, held, custom>>

(***************************************************************************)
(* TokenManager (src/utils/tokenManager.ts)                                *)
(***************************************************************************)

\* mutant: the expiry instant itself still counts as valid
isTokenExpired_gt(td, t) ==
    IF td = Null THEN TRUE
    ELSE t > td[1].expiresAt

\* isTokenExpired(): no credential counts as expired
isTokenExpired(td, t) ==
    IF td = Null THEN TRUE
    ELSE t >= td[1].expiresAt

\* getToken(): Null if absent or expired, else the token string
getToken(td, t) ==
    IF td = Null THEN Null
    ELSE IF isTokenExpired(td, t) THEN Null
    ELSE Some(td[1].token)

Max(a, b) == IF a >= b THEN a ELSE b

\* mutant: the result is not clamped at 0
getRemainingTTL_noMax(td, t) ==
    IF td = Null THEN 0
    ELSE (td[1].expiresAt - t) \div MsPerSec

\* getRemainingTTL(): whole seconds left, never negative
getRemainingTTL(td, t) ==
    IF td = Null THEN 0
    ELSE Max(0, (td[1].expiresAt - t) \div MsPerSec)

\* mutant: the guard against an empty token is missing
setTokenData_noGuard(td, token, expiresInSeconds, t) ==
    Some([token |-> token, expiresAt |-> t + expiresInSeconds * MsPerSec])

\* mutant: a stored credential keeps its expiry when the token is replaced
setTokenData_keepExpiry(td, token, expiresInSeconds, t) ==
    IF token = "" THEN td
    ELSE Some([token |-> token,
               expiresAt |-> IF td # Null THEN td[1].expiresAt
                             ELSE t + expiresInSeconds * MsPerSec])

\* the slot after setToken(token, expiresInSeconds) executed at instant t
setTokenData(td, token, expiresInSeconds, t) ==
    IF token = "" THEN td
    ELSE Some([token |-> token, expiresAt |-> t + expiresInSeconds * MsPerSec])

\* mutant: only an expired credential is dropped
clearTokenData_onlyExpired(td) ==
    IF isTokenExpired(td, now) THEN Null ELSE td

\* the slot after clearToken()
clearTokenData(td) == Null

\* history: a setToken with a non-empty token and clearToken are the
\* mutations of the slot
recordSet(lm, token, ttl, t) ==
    IF token = "" THEN lm
    ELSE [op |-> "set", token |-> token, ttl |-> ttl, at |-> t]

recordClear(lm) == [op |-> "clear", token |-> "", ttl |-> 0, at |-> 0]

NoMutation == [op |-> "none", token |-> "", ttl |-> 0, at |-> 0]

SetToken(token, expiresInSeconds) ==
    /\ tokenData' = setTokenData(tokenData, token, expiresInSeconds, now)
    /\ lastMut' = recordSet(lastMut, token, expiresInSeconds, now)
    /\ emptySet' = IF token = "" THEN Some(tokenData) ELSE Null
    /\ UNCHANGED <<now, config, pureVars, authVars, callVars>>

ClearToken ==
    /\ tokenData' = clearTokenData(tokenData)
    /\ lastMut' = recordClear(lastMut)
    /\ emptySet' = Null
    /\ UNCHANGED <<now, config, pureVars, authVars, callVars>>

\* the wall clock moves forward to a later instant
Tick ==
    /\ \E t \in Instants : t > now /\ now' = t
    /\ UNCHANGED <<config, pureVars, authVars, tokenVars, callVars>>

(***************************************************************************)
(* APIClient (src/pages/basePage.ts)                                       *)
(***************************************************************************)

\* mutant: the defaults are spread after the custom headers
buildHeaders_defaultsLast(customHeaders, td, t) ==
    LET token == getToken(td, t)
        baseHeaders == ("Content-Type" :> "application/json" @@
                        "Accept" :> "application/json") @@ customHeaders
    IN  IF token # Null /\ token[1] # ""
        THEN ("Authorization" :> ("Bearer " \o token[1])) @@ baseHeaders
        ELSE baseHeaders

\* mutant: the custom headers are spread after the token is injected
buildHeaders_customLast(customHeaders, td, t) ==
    LET token == getToken(td, t)
        baseHeaders == "Content-Type" :> "application/json" @@
                       "Accept" :> "application/json"
    IN  IF token # Null /\ token[1] # ""
        THEN customHeaders @@
             ("Authorization" :> ("Bearer " \o token[1])) @@ baseHeaders
        ELSE customHeaders @@ baseHeaders

\* buildHeaders(customHeaders): JSON defaults, overridden by the custom
\* headers, then the bearer token of TokenManager when getToken() is truthy
buildHeaders(customHeaders, td, t) ==
    LET token == getToken(td, t)
        baseHeaders == customHeaders @@
                       ("Content-Type" :> "application/json" @@
                        "Accept" :> "application/json")
    IN  IF token # Null /\ token[1] # ""
        THEN ("Authorization" :> ("Bearer " \o token[1])) @@ baseHeaders
        ELSE baseHeaders

\* response.json(): the decoded body, or Null when the body is not JSON
jsonOf(body) ==
    IF body = JsonBody
    THEN Some([kind |-> "object", text |-> "", token |-> Some("t1")])
    ELSE Null

\* response.text(): the raw body
textOf(body) == [kind |-> "text", text |-> body, token |-> Null]

\* mutant: a body that is not JSON is not read as text
handleResponse_noFallback(response, time) ==
    [status |-> response.status,
     statusText |-> response.statusText,
     data |-> IF jsonOf(response.body) # Null
              THEN jsonOf(response.body)[1]
              ELSE [kind |-> "object", text |-> "", token |-> Null],
     responseTime |-> time]

\* handleResponse(response, url, time): the unified APIResponse
handleResponse(response, time) ==
    [status |-> response.status,
     statusText |-> response.statusText,
     data |-> IF jsonOf(response.body) # Null
              THEN jsonOf(response.body)[1]
              ELSE textOf(response.body),
     responseTime |-> time]

\* mutant: off by one, the last attempt is never started
whileCond_lt(att, retries) == att < retries

\* while (attempt <= retries)
whileCond(att, retries) == att <= retries

\* mutant: off by one, the loop is left one failure early
breakCond_ge(att, retries) == att >= retries

\* if (attempt > retries) break
breakCond(att, retries) == att > retries

\* mutant: the first error is kept
catchError_first(prev, error) == IF prev = Null THEN Some(error) ELSE prev

\* catch (error) { lastError = error
catchError(prev, error) == Some(error)

\* mutant: a 5xx response is retried
completes_retry5xx(response) == response.status < 500

\* a response of the transport ends the call, whatever its status
completes(response) == TRUE

\* throw lastError
Throw(att, err) ==
    /\ pc' = "thrown"
    /\ thrown' = err
    /\ attempt' = att
    /\ lastError' = err
    /\ UNCHANGED <<headers, startTime, result, calls, sent>>

\* the head of the retry loop: one more attempt is started and the
\* transport is called, or the loop is left and lastError is thrown
LoopStep(att, err, hdrs) ==
    IF whileCond(att, config.retryAttempts)
    THEN /\ attempt' = att + 1
         /\ lastError' = err
         /\ startTime' = now
         /\ pc' = "fetching"
         /\ calls' = calls + 1
         /\ sent' = Append(sent, hdrs)
         /\ headers' = hdrs
         /\ UNCHANGED <<result, thrown>>
    ELSE /\ Throw(att, err)

\* execute(method, endpoint, payload, options) up to its first transport call
Execute(customHeaders) ==
    /\ pc = "idle"
    /\ held' = IF tokenData # Null /\ now < tokenData[1].expiresAt
               THEN Some(tokenData[1].token) ELSE Null
    /\ custom' = customHeaders
    /\ transportLog' = <<>>
    /\ LoopStep(0, Null, buildHeaders(customHeaders, tokenData, now))
    /\ UNCHANGED <<now, config, pureVars, authVars, tokenVars>>

\* mutant: the headers are built again for every attempt
FetchFails_rebuildHeaders(error) ==
    /\ pc = "fetching"
    /\ transportLog' = Append(transportLog,
           [kind |-> "error", error |-> error, status |-> 0, body |-> ""])
    /\ LET err == catchError(lastError, error)
       IN  IF breakCond(attempt, config.retryAttempts)
           THEN Throw(attempt, err)
           ELSE LoopStep(attempt, err, buildHeaders(custom, tokenData, now))
    /\ UNCHANGED <<now, config, pureVars, authVars, tokenVars, held, custom>>

\* request.fetch rejects: network error, timeout, connection refused
FetchFails(error) ==
    /\ pc = "fetching"
    /\ transportLog' = Append(transportLog,
           [kind |-> "error", error |-> error, status |-> 0, body |-> ""])
    /\ LET err == catchError(lastError, error)
       IN  IF breakCond(attempt, config.retryAttempts)
           THEN Throw(attempt, err)
           ELSE LoopStep(attempt, err, headers)
    /\ UNCHANGED <<now, config, pureVars, authVars, tokenVars, held, custom>>

\* mutant: a response with an error status is thrown instead of returned
FetchResponds_throwHttpError(response) ==
    /\ pc = "fetching"
    /\ transportLog' = Append(transportLog,
           [kind |-> "response", error |-> "", status |-> response.status,
            body |-> response.body])
    /\ IF response.status < 400
       THEN /\ pc' = "returned"
            /\ result' = Some(handleResponse(response, now - startTime))
            /\ UNCHANGED <<attempt, lastError, headers, startTime, thrown,
                           calls, sent>>
       ELSE Throw(attempt, Some(response.statusText))
    /\ UNCHANGED <<now, config, pureVars, authVars, tokenVars, held, custom>>

\* request.fetch resolves with a response
FetchResponds(response) ==
    /\ pc = "fetching"
    /\ transportLog' = Append(transportLog,
           [kind |-> "response", error |-> "", status |-> response.status,
            body |-> response.body])
    /\ IF completes(response)
       THEN /\ pc' = "returned"
            /\ result' = Some(handleResponse(response, now - startTime))
            /\ UNCHANGED <<attempt, lastError, headers, startTime, thrown,
                           calls, sent>>
       ELSE LoopStep(attempt, lastError, headers)
    /\ UNCHANGED <<now, config, pureVars, authVars, tokenVars, held, custom>>

\* the caller takes the outcome of the call; the client is free again
Finish ==
    /\ pc \in {"returned", "thrown"}
    /\ pc' = "idle"
    /\ attempt' = 0
    /\ lastError' = Null
    /\ headers' = NoHeaders
    /\ startTime' = 0
    /\ result' = Null
    /\ thrown' = Null
    /\ transportLog' = <<>>
    /\ calls' = 0
    /\ sent' = <<>>
    /\ held' = Null
    /\ custom' = NoHeaders
    /\ UNCHANGED <<now, config, pureVars, authVars, tokenVars>>


(***************************************************************************)
(* APIClient.execute, steps 1 and 2: the URL (src/pages/basePage.ts)       *)
(*                                                                         *)
(* The text of a URL is a sequence of one-letter strings, so that slashes  *)
(* can be counted and removed.  None of the letters used needs percent     *)
(* encoding.                                                               *)
(***************************************************************************)
ExampleHost == <<"h", "t", "t", "p", "s", ":", "/", "/", "a", "p", "i", ".", "e", "x", "a", "m", "p", "l", "e", ".", "c", "o", "m">>
Objects == <<"o", "b", "j", "e", "c", "t", "s">>
Slash == <<"/">>

RECURSIVE Slashes(_)
Slashes(k) == IF k = 0 THEN <<>> ELSE Slash \o Slashes(k - 1)

\* base URLs: a host followed by 0..MaxSlashes slashes
Bases == {h \o Slashes(k) : h \in {ExampleHost, <<"h">>}, k \in 0..MaxSlashes}

\* endpoints: every text over / and o up to MaxPathLen letters, and "objects"
\* with and without its leading slash
Endpoints ==
    UNION {[1..n -> {"/", "o"}] : n \in 0..MaxPathLen}
       \cup {Objects, Slash \o Objects}

\* JavaScript values that occur in an options bag
Num(n) == [t |-> "number", n |-> n]
Str(cs) == [t |-> "string", s |-> cs]
Entry(k, v) == [key |-> k, value |-> v]
PageKey == <<"p">>
PerPageKey == <<"p", "p">>
PageEntries == <<Entry(PageKey, Num(1)), Entry(PerPageKey, Num(5))>>

\* an options bag: its params object (Null when the bag has no params key)
\* and its other keys, both as entries in insertion order
Bag(params, rest) == [params |-> params, rest |-> rest]
OptionBags ==
    {Null,                                        \* no options argument
     Some(Bag(Null, <<>>)),                       \* {}
     Some(Bag(Null, PageEntries)),                \* {page: 1, per_page: 5}
     Some(Bag(Some(<<>>), <<>>)),                 \* {params: {}}
     Some(Bag(Some(<<Entry(PageKey, Num(1))>>), <<>>)),
     Some(Bag(Some(PageEntries), <<>>)),
     Some(Bag(Some(<<Entry(PerPageKey, Str(<<"o">>)),
                     Entry(PageKey, Num(12))>>), <<>>))}

URLInputs == [base : Bases, endpoint : Endpoints, options : OptionBags]

\* mutant: only one trailing slash is removed
stripTrailingSlashes_one(text) ==
    IF text # <<>> /\ text[Len(text)] = "/"
    THEN SubSeq(text, 1, Len(text) - 1)
    ELSE text

\* base.replace(/\/+$/, "")
RECURSIVE stripTrailingSlashes(_)
stripTrailingSlashes(text) ==
    IF text # <<>> /\ text[Len(text)] = "/"
    THEN stripTrailingSlashes(SubSeq(text, 1, Len(text) - 1))
    ELSE text

\* endpoint.startsWith("/") ? endpoint : `/${endpoint}`
pathOf(endpoint) ==
    IF endpoint # <<>> /\ endpoint[1] = "/"
    THEN endpoint
    ELSE Slash \o endpoint

\* String(n) of a whole number n >= 0
Digits == <<"0", "1", "2", "3", "4", "5", "6", "7", "8", "9">>
RECURSIVE numberToText(_)
numberToText(n) ==
    IF n < 10 THEN <<Digits[n + 1]>>
    ELSE numberToText(n \div 10) \o <<Digits[(n % 10) + 1]>>

\* the string a value is coerced to
valueToText(v) == IF v.t = "number" THEN numberToText(v.n) ELSE v.s

\* new URLSearchParams(params).toString(): key=value joined by &
RECURSIVE queryString(_)
queryString(entries) ==
    IF entries = <<>> THEN <<>>
    ELSE LET e == entries[1]
             first == e.key \o <<"=">> \o valueToText(e.value)
         IN  IF Len(entries) = 1 THEN first
             ELSE first \o <<"&">> \o queryString(Tail(entries))

\* mutant: a bag without a params key is itself taken as the params
paramsOf_bag(options) ==
    IF options = Null THEN Null
    ELSE IF options[1].params # Null THEN options[1].params
    ELSE IF options[1].rest # <<>> THEN Some(options[1].rest)
    ELSE Null

\* options?.params
paramsOf(options) ==
    IF options = Null THEN Null ELSE options[1].params

\* execute, steps 1 and 2: the final URL
buildURL(baseURL, endpoint, options) ==
    LET base == stripTrailingSlashes(baseURL)
        path == pathOf(endpoint)
        url == base \o path
        params == paramsOf(options)
    IN  IF params # Null
        THEN url \o <<"?">> \o queryString(params[1])
        ELSE url

\* one execute call builds its URL
BuildURL ==
    /\ arg # Null
    /\ ret = Null
    /\ ret' = Some([url |-> buildURL(arg[1].base, arg[1].endpoint,
                                     arg[1].options)])
    /\ UNCHANGED <<now, config, arg, authVars, tokenVars, callVars>>


(***************************************************************************)
(* ConfigManager (src/config/config.ts)                                    *)
(***************************************************************************)
\* a JavaScript number: NaN, or a finite whole number
NaN == [nan |-> TRUE, n |-> 0]
Number(n) == [nan |-> FALSE, n |-> n]

\* Number(text) for the texts an environment variable is given
NumberOf(text) ==
    CASE text = "" -> Number(0)
      [] text = "0" -> Number(0)
      [] text = "2" -> Number(2)
      [] text = "5000" -> Number(5000)
      [] text = "-1" -> Number(0 - 1)
      [] text = "-5" -> Number(0 - 5)
      [] OTHER -> NaN

\* process.env: each variable is unset (Null) or a text
EnvBaseURLs == {Null, Some(""), Some("not a url"),
                Some("https://api.example.com/")}
EnvTimeouts == {Null, Some(""), Some("abc"), Some("0"), Some("-5"),
                Some("5000")}
EnvRetries == {Null, Some(""), Some("abc"), Some("-1"), Some("0"), Some("2")}
Envs == [API_BASE_URL : EnvBaseURLs, API_TIMEOUT : EnvTimeouts,
         RETRY_ATTEMPTS : EnvRetries]

\* process.env.API_BASE_URL || "https://api.restful-api.dev"
baseURLOf(env) ==
    IF env.API_BASE_URL = Null \/ env.API_BASE_URL[1] = ""
    THEN DefaultBaseURL
    ELSE env.API_BASE_URL[1]

\* Number(process.env.API_TIMEOUT ?? 30000)
timeoutOf(env) ==
    IF env.API_TIMEOUT = Null THEN Number(DefaultTimeout)
    ELSE NumberOf(env.API_TIMEOUT[1])

\* Number(process.env.RETRY_ATTEMPTS ?? 1)
retryAttemptsOf(env) ==
    IF env.RETRY_ATTEMPTS = Null THEN Number(DefaultRetryAttempts)
    ELSE NumberOf(env.RETRY_ATTEMPTS[1])

\* validateConfig(): the message of the error it throws, or Null
validateConfig(cfg) ==
    IF cfg.baseURL = ""
    THEN Some("CONFIG ERROR: Missing API_BASE_URL variable.")
    ELSE IF cfg.timeout.nan \/ cfg.timeout.n <= 0
    THEN Some("CONFIG ERROR: Invalid API_TIMEOUT value.")
    ELSE IF cfg.retryAttempts.nan \/ cfg.retryAttempts.n < 0
    THEN Some("CONFIG ERROR: Invalid RETRY_ATTEMPTS value.")
    ELSE Null

\* new ConfigManager(): the instance, or the error thrown
construct(env) ==
    LET cfg == [baseURL |-> baseURLOf(env),
                timeout |-> timeoutOf(env),
                retryAttempts |-> retryAttemptsOf(env)]
        error == validateConfig(cfg)
    IN  IF error # Null
        THEN [kind |-> "throw", message |-> error[1], config |-> Null]
        ELSE [kind |-> "instance", message |-> "", config |-> Some(cfg)]

\* ConfigManager.getInstance() at module load
Construct ==
    /\ arg # Null
    /\ ret = Null
    /\ ret' = Some(construct(arg[1]))
    /\ UNCHANGED <<now, config, arg, authVars, tokenVars, callVars>>


(***************************************************************************)
(* SchemaValidator (src/unnamed/part_000)                                  *)
(*                                                                         *)
(* A decoded JSON value is a record tagged with its JSON type.  A schema   *)
(* is a record that has a field exactly for the keys the schema object     *)
(* has; properties is a sequence of (key, schema) in insertion order.      *)
(* A call of a validator method yields the errors it pushed and, when it   *)
(* was left by an exception, the message of that exception.  An error is   *)
(* the kind of its message and the path the message names; loc records     *)
(* where in the data the validator stood when it pushed the error.         *)
(***************************************************************************)
JNull == [t |-> "null"]
JStr(text) == [t |-> "string", s |-> text]
JNum(n) == [t |-> "number", n |-> n]
JBool(b) == [t |-> "boolean", b |-> b]
JArr(items) == [t |-> "array", items |-> items]
JObj(fields) == [t |-> "object", fields |-> fields]
NoFields == [k \in {} |-> JNull]

\* a schema that is null, undefined or not an object
NullSchema == [isNull |-> TRUE]
Prop(key, schema) == [key |-> key, schema |-> schema]

\* where in the data an error was found: the keys and indices from the root
KeyStep(key) == [key |-> key, index |-> 0 - 1]
IndexStep(index) == [key |-> "", index |-> index]

Error(kind, path, loc) == [kind |-> kind, path |-> path, loc |-> loc]
Pushed(errors) == [errors |-> errors, threw |-> Null]
Threw(message, loc) ==
    [errors |-> <<>>, threw |-> Some([message |-> message, loc |-> loc])]

\* statements in sequence: an exception in the first skips the second
Then(first, second) ==
    IF first.threw # Null THEN first
    ELSE [errors |-> first.errors \o second.errors, threw |-> second.threw]

\* typeof value
typeOf(value) ==
    IF value.t \in {"null", "array", "object"} THEN "object" ELSE value.t

\* mutant: an array is an object, as typeof says
actualTypeOf_typeof(value) == typeOf(value)

\* Array.isArray(value) ? "array" : typeof value
actualTypeOf(value) ==
    IF value.t = "array" THEN "array" ELSE typeOf(value)

\* the operator `in` throws a TypeError on null and on primitives
inThrows(data) == data.t \in {"null", "string", "number", "boolean"}

\* key in data, for the property names of the schemas (no index, no length)
hasKey(key, data) == data.t = "object" /\ key \in DOMAIN data.fields

\* new RegExp(pattern).test(text)
\* the email pattern of the user schema
EmailPattern == "^[\\w-\\.]+@([\\w-]+\\.)+[\\w-]{2,4}$"
regExpTest(pattern, text) ==
    IF pattern = EmailPattern THEN text \in {"a@b.io"}
    ELSE FALSE

\* enum.includes(text)
includes(enum, text) == \E i \in 1..Len(enum) : enum[i] = text

\* mutant: the path always gets a dot
joinPath_leadingDot(parent, child) == parent \o "." \o child

\* joinPath(parent, child)
joinPath(parent, child) ==
    IF parent # "" THEN parent \o "." \o child ELSE child

\* `${path}[${index}]`
indexedPath(path, index) == path \o "[" \o ToString(index) \o "]"

RECURSIVE validateObject(_, _, _, _)
RECURSIVE validateField(_, _, _, _)
RECURSIVE checkRequired(_, _, _, _, _)
RECURSIVE checkProperties(_, _, _, _, _)
RECURSIVE checkItems(_, _, _, _, _)

\* schema.required.forEach(...), from the i-th name on
checkRequired(required, i, data, path, loc) ==
    IF i > Len(required) THEN Pushed(<<>>)
    ELSE IF inThrows(data)
    THEN Threw("Cannot use 'in' operator", loc)
    ELSE Then(IF hasKey(required[i], data) THEN Pushed(<<>>)
              ELSE Pushed(<<Error("missing", joinPath(path, required[i]),
                                  Append(loc, KeyStep(required[i])))>>),
              checkRequired(required, i + 1, data, path, loc))

\* mutant: a property that is absent is validated as undefined
checkProperties_noSkip(properties, i, data, path, loc) ==
    IF i > Len(properties) THEN Pushed(<<>>)
    ELSE LET key == properties[i].key
             fieldSchema == properties[i].schema
             fullPath == joinPath(path, key)
         IN  IF inThrows(data)
             THEN Threw("Cannot use 'in' operator", loc)
             ELSE Then(validateField(IF hasKey(key, data)
                                     THEN data.fields[key]
                                     ELSE [t |-> "undefined"],
                                     fieldSchema, fullPath,
                                     Append(loc, KeyStep(key))),
                       checkProperties(properties, i + 1, data, path, loc))

\* for (const key of Object.keys(schema.properties)), from the i-th key on
checkProperties(properties, i, data, path, loc) ==
    IF i > Len(properties) THEN Pushed(<<>>)
    ELSE LET key == properties[i].key
             fieldSchema == properties[i].schema
             fullPath == joinPath(path, key)
         IN  IF inThrows(data)
             THEN Threw("Cannot use 'in' operator", loc)
             ELSE Then(IF ~hasKey(key, data) THEN Pushed(<<>>)
                       ELSE validateField(data.fields[key], fieldSchema,
                                          fullPath, Append(loc, KeyStep(key))),
                       checkProperties(properties, i + 1, data, path, loc))

\* value.forEach((item, index) => ...), from the i-th item on
checkItems(items, i, fieldSchema, path, loc) ==
    IF i > Len(items) THEN Pushed(<<>>)
    ELSE Then(validateField(items[i],
                            IF "items" \in DOMAIN fieldSchema
                            THEN fieldSchema.items ELSE NullSchema,
                            indexedPath(path, i - 1),
                            Append(loc, IndexStep(i - 1))),
              checkItems(items, i + 1, fieldSchema, path, loc))

\* validateObject(data, schema, path, errors)
validateObject(data, schema, path, loc) ==
    IF "isNull" \in DOMAIN schema
    THEN Pushed(<<Error("invalidSchema", path, loc)>>)
    ELSE Then(IF "required" \in DOMAIN schema
              THEN checkRequired(schema.required, 1, data, path, loc)
              ELSE Pushed(<<>>),
              IF "properties" \in DOMAIN schema
              THEN checkProperties(schema.properties, 1, data, path, loc)
              ELSE Pushed(<<>>))

\* the rules of a string field
stringRules(value, fieldSchema, path, loc) ==
    Pushed(
      (IF /\ "minLength" \in DOMAIN fieldSchema
          /\ fieldSchema.minLength # 0
          /\ Len(value.s) < fieldSchema.minLength
       THEN <<Error("tooShort", path, loc)>> ELSE <<>>)
      \o
      (IF /\ "maxLength" \in DOMAIN fieldSchema
          /\ fieldSchema.maxLength # 0
          /\ Len(value.s) > fieldSchema.maxLength
       THEN <<Error("tooLong", path, loc)>> ELSE <<>>)
      \o
      (IF /\ "pattern" \in DOMAIN fieldSchema
          /\ fieldSchema.pattern # ""
          /\ ~regExpTest(fieldSchema.pattern, value.s)
       THEN <<Error("pattern", path, loc)>> ELSE <<>>)
      \o
      (IF /\ "enum" \in DOMAIN fieldSchema
          /\ ~includes(fieldSchema.enum, value.s)
       THEN <<Error("enum", path, loc)>> ELSE <<>>))

\* the rules of a number field (a decoded JSON number is never NaN)
numberRules(value, fieldSchema, path, loc) ==
    Pushed(
      (IF value.t # "number"
       THEN <<Error("notANumber", path, loc)>> ELSE <<>>)
      \o
      (IF "minimum" \in DOMAIN fieldSchema /\ value.n < fieldSchema.minimum
       THEN <<Error("belowMinimum", path, loc)>> ELSE <<>>)
      \o
      (IF "maximum" \in DOMAIN fieldSchema /\ value.n > fieldSchema.maximum
       THEN <<Error("aboveMaximum", path, loc)>> ELSE <<>>))

\* validateField(value, fieldSchema, path, errors)
validateField(value, fieldSchema, path, loc) ==
    IF "isNull" \in DOMAIN fieldSchema
    THEN Threw("Cannot read properties of undefined (reading 'type')", loc)
    ELSE IF "type" \in DOMAIN fieldSchema
            /\ actualTypeOf(value) # fieldSchema.type
    THEN Pushed(<<Error("typeMismatch", path, loc)>>)
    ELSE IF "type" \notin DOMAIN fieldSchema
    THEN Pushed(<<>>)
    ELSE CASE fieldSchema.type = "string" ->
                 stringRules(value, fieldSchema, path, loc)
           [] fieldSchema.type = "number" ->
                 numberRules(value, fieldSchema, path, loc)
           [] fieldSchema.type = "array" ->
                 checkItems(value.items, 1, fieldSchema, path, loc)
           [] fieldSchema.type = "object"
                 /\ "properties" \in DOMAIN fieldSchema ->
                 validateObject(value, fieldSchema, path, loc)
           [] OTHER -> Pushed(<<>>)

\* mutant: the top-level data is checked as a field of the top-level schema
validate_asField(data, schema) ==
    LET run == validateField(data, schema, "", <<>>)
        errors == IF run.threw # Null
                  THEN Append(run.errors,
                              Error("exception", run.threw[1].message,
                                    run.threw[1].loc))
                  ELSE run.errors
    IN  [kind |-> "return", valid |-> errors = <<>>, errors |-> errors]

\* mutant: the exception of validateObject is not caught
validate_noCatch(data, schema) ==
    LET run == validateObject(data, schema, "", <<>>)
    IN  IF run.threw # Null
        THEN [kind |-> "throw", valid |-> FALSE, errors |-> run.errors]
        ELSE [kind |-> "return", valid |-> run.errors = <<>>,
              errors |-> run.errors]

\* validate(data, schema): try validateObject, catch into errors; the entry
\* of an exception is its message, kept here with the place it was thrown at
validate(data, schema) ==
    LET run == validateObject(data, schema, "", <<>>)
        errors == IF run.threw # Null
                  THEN Append(run.errors,
                              Error("exception", run.threw[1].message,
                                    run.threw[1].loc))
                  ELSE run.errors
    IN  [kind |-> "return", valid |-> errors = <<>>, errors |-> errors]

\* one call of schemaValidator.validate
Validate ==
    /\ arg # Null
    /\ ret = Null
    /\ ret' = Some(validate(arg[1].data, arg[1].schema))
    /\ UNCHANGED <<now, config, arg, authVars, tokenVars, callVars>>

\* ---- the schemas and the data of the validation calls ----
\* email: { type: "string", pattern: ... }
EmailSchema == [type |-> "string", pattern |-> EmailPattern]
\* id: { type: "number", minimum: 1 }
IdSchema == [type |-> "number", minimum |-> 1]
\* the user schema: id and email required
UserSchema ==
    [type |-> "object", required |-> <<"id", "email">>,
     properties |-> <<Prop("id", IdSchema), Prop("email", EmailSchema)>>]
\* a nested object: { user: { email }, id }
ProfileSchema ==
    [type |-> "object",
     properties |->
        <<Prop("user", [type |-> "object", required |-> <<"email">>,
                        properties |-> <<Prop("email", EmailSchema)>>]),
          Prop("id", IdSchema)>>]
\* an array of objects: { items: [ { price } ] }
CartSchema ==
    [type |-> "object",
     properties |->
        <<Prop("items",
               [type |-> "array",
                items |-> [type |-> "object",
                           properties |->
                              <<Prop("price", [type |-> "number"])>>]])>>]
\* an array field without items
TagsSchema ==
    [type |-> "object", properties |-> <<Prop("tags", [type |-> "array"])>>]
\* an array schema at the top level
NumberListSchema == [type |-> "array", items |-> [type |-> "number"]]
\* length bounds and enum of a string
LengthSchema ==
    [type |-> "object",
     properties |->
        <<Prop("email", [type |-> "string", minLength |-> 4, maxLength |-> 5,
                         pattern |-> EmailPattern, enum |-> <<"bad">>])>>]
\* length bounds equal to 0
ZeroLengthSchema ==
    [type |-> "object",
     properties |->
        <<Prop("email", [type |-> "string", minLength |-> 0,
                         maxLength |-> 0])>>]
\* a field schema without a type that carries every other keyword
TypelessSchema ==
    [type |-> "object",
     properties |->
        <<Prop("id", [minLength |-> 9, maxLength |-> 1,
                      pattern |-> EmailPattern, enum |-> <<"x">>,
                      minimum |-> 9, maximum |-> 0 - 1,
                      items |-> [type |-> "boolean"],
                      properties |-> <<Prop("x", [type |-> "string"])>>])>>]
\* required names only
RequiredOnlySchema == [type |-> "object", required |-> <<"id">>]

Schemas ==
    {UserSchema, ProfileSchema, CartSchema, TagsSchema, NumberListSchema,
     LengthSchema, ZeroLengthSchema, TypelessSchema, RequiredOnlySchema,
     NullSchema}

FieldValues ==
    {JNull, JStr("bad"), JStr("a@b.io"), JNum(0), JNum(1), JBool(TRUE),
     JArr(<<JNum(1)>>)}
\* every object over the keys id and email
FlatObjects ==
    {JObj(fields) : fields \in UNION {[keys -> FieldValues] :
                                         keys \in SUBSET {"id", "email"}}}
Priced(value) == JObj([k \in {"price"} |-> value])
Mixed == JArr(<<JNum(1), JStr("x"), JNum(3)>>)
NestedObjects ==
    {JObj([k \in {"user", "id"} |-> IF k = "user" THEN user ELSE id]) :
        user \in {JNull, JObj(NoFields), JArr(<<JNum(1)>>),
                  JObj([k \in {"email"} |-> JStr("bad")]),
                  JObj([k \in {"email"} |-> JStr("a@b.io")])},
        id \in {JNum(0), JNum(1)}}
    \cup {JObj([k \in {"items"} |-> JArr(items)]) :
            items \in {<<>>, <<Priced(JNum(1))>>,
                       <<Priced(JNum(1)), Priced(JNum(2)), Priced(JStr("x"))>>}}
    \cup {JObj([k \in {"tags"} |-> tags]) :
            tags \in {JArr(<<>>), JArr(<<JNum(1)>>), JStr("bad")}}
Datas == FlatObjects \cup NestedObjects \cup FieldValues \cup {Mixed}
ValidationCalls == {[data |-> d, schema |-> sc] : d \in Datas, sc \in Schemas}

(***************************************************************************)
(* APIClient: the public methods (src/pages/basePage.ts)                   *)
(*                                                                         *)
(* A call site passes up to three arguments; a method binds them to its    *)
(* parameters by position and drops the ones it has no parameter for.      *)
(***************************************************************************)
MethodNames == {"get", "post", "put", "patch", "delete"}
\* a request body { n: "o" }, or none
Payloads == {Null, Some(Bag(Null, <<Entry(<<"n">>, Str(<<"o">>))>>))}
PublicCalls ==
    [name : MethodNames, path : {Objects, Slash \o Objects},
     payload : Payloads, options : OptionBags]

\* this.execute(method, endpoint, payload, options)
executeCall(method, endpoint, payload, options) ==
    [method |-> method, endpoint |-> endpoint, payload |-> payload,
     options |-> options]

\* get(endpoint, options)
get(first, second, third) == executeCall("GET", first, Null, second)
\* post(endpoint, payload, options)
post(first, second, third) == executeCall("POST", first, second, third)
\* put(endpoint, payload, options)
put(first, second, third) == executeCall("PUT", first, second, third)
\* patch(endpoint, payload, options)
patch(first, second, third) == executeCall("PATCH", first, second, third)
\* delete(endpoint, options)
delete(first, second, third) == executeCall("DELETE", first, Null, second)

\* client[name](first, second, third)
publicMethod(name, first, second, third) ==
    CASE name = "get" -> get(first, second, third)
      [] name = "post" -> post(first, second, third)
      [] name = "put" -> put(first, second, third)
      [] name = "patch" -> patch(first, second, third)
      [] name = "delete" -> delete(first, second, third)

\* one call of a public method, up to its call of execute
CallPublic ==
    /\ arg # Null
    /\ ret = Null
    /\ ret' = Some(publicMethod(arg[1].name, arg[1].path, arg[1].payload,
                                arg[1].options))
    /\ UNCHANGED <<now, config, arg, authVars, tokenVars, callVars>>

(***************************************************************************)
(* AuthService (src/services/authService.ts)                               *)
(*                                                                         *)
(* login awaits client.post("/login", ...) and continues when execute has  *)
(* returned or thrown; logout is synchronous.  Every APIClient reads the   *)
(* one TokenManager, so a request of another APIClient instance is its     *)
(* buildHeaders at the instant it starts.                                  *)
(***************************************************************************)
\* this.tokenStore.setToken(token, 3600)
LoginTTL == 3600

NoAuth == [last |-> "none", token |-> "", at |-> 0]
AuthIdle ==
    /\ loginPc = "none"
    /\ loginResult = Null
    /\ authLog = NoAuth
    /\ otherSent = Null

\* mutant: the status of the response is not looked at
loginFails_tokenOnly(response) ==
    \/ response.data.token = Null
    \/ response.data.token[1] = ""

\* response.status !== 200 || !response.data?.token
loginFails(response) ==
    \/ response.status # 200
    \/ response.data.token = Null
    \/ response.data.token[1] = ""

\* login(email, password) up to the first transport call of its post
Login ==
    /\ pc = "idle"
    /\ loginPc = "none"
    /\ loginPc' = "awaiting"
    /\ loginResult' = Null
    /\ held' = IF tokenData # Null /\ now < tokenData[1].expiresAt
               THEN Some(tokenData[1].token) ELSE Null
    /\ custom' = NoHeaders
    /\ transportLog' = <<>>
    /\ LoopStep(0, Null, buildHeaders(NoHeaders, tokenData, now))
    /\ UNCHANGED <<now, config, pureVars, tokenVars, authLog, otherSent>>

\* login after its await: the check of the response, setToken, return
LoginReturns ==
    /\ loginPc = "awaiting"
    /\ pc \in {"returned", "thrown"}
    /\ IF pc = "returned" /\ ~loginFails(result[1])
       THEN LET token == result[1].data.token[1]
            IN  /\ tokenData' = setTokenData(tokenData, token, LoginTTL, now)
                /\ lastMut' = recordSet(lastMut, token, LoginTTL, now)
                /\ emptySet' = Null
                /\ loginResult' = Some([kind |-> "returned", value |-> token])
                /\ authLog' = [last |-> "login", token |-> token, at |-> now]
       ELSE /\ UNCHANGED <<tokenVars, authLog>>
            /\ loginResult' =
                  Some([kind |-> "threw",
                        value |-> IF pc = "thrown" THEN thrown[1]
                                  ELSE "Login failed: HTTP "
                                          \o ToString(result[1].status)])
    /\ loginPc' = "none"
    /\ pc' = "idle"
    /\ attempt' = 0
    /\ lastError' = Null
    /\ headers' = NoHeaders
    /\ startTime' = 0
    /\ result' = Null
    /\ thrown' = Null
    /\ transportLog' = <<>>
    /\ calls' = 0
    /\ sent' = <<>>
    /\ held' = Null
    /\ custom' = NoHeaders
    /\ UNCHANGED <<now, config, pureVars, otherSent>>

\* mutant: logout leaves the credential in the slot
Logout_keepsToken ==
    /\ authLog' = [last |-> "logout", token |-> "", at |-> 0]
    /\ UNCHANGED <<now, config, pureVars, tokenVars, callVars, loginPc,
                   loginResult, otherSent>>

\* logout(): clearToken
Logout ==
    /\ tokenData' = clearTokenData(tokenData)
    /\ lastMut' = recordClear(lastMut)
    /\ emptySet' = Null
    /\ authLog' = [last |-> "logout", token |-> "", at |-> 0]
    /\ UNCHANGED <<now, config, pureVars, callVars, loginPc, loginResult,
                   otherSent>>

\* the caller of a request that is not the login takes its outcome
Return ==
    /\ loginPc = "none"
    /\ Finish

\* another APIClient instance starts a request: its headers are built from
\* the same TokenManager; the rest of that call touches no shared state
StartElsewhere(customHeaders) ==
    /\ otherSent' = Some(buildHeaders(customHeaders, tokenData, now))
    /\ UNCHANGED <<now, config, pureVars, tokenVars, callVars, loginPc,
                   loginResult, authLog>>

\* the wall clock moves forward to the instant the stored credential expires
Expire ==
    /\ tokenData # Null
    /\ now \in Instants
    /\ now < tokenData[1].expiresAt
    /\ now' = tokenData[1].expiresAt
    /\ UNCHANGED <<config, pureVars, authVars, tokenVars, callVars>>

(***************************************************************************)
(* The system                                                              *)
(***************************************************************************)
Init ==
    /\ now = 0
    /\ config \in {[baseURL |-> DefaultBaseURL, timeout |-> DefaultTimeout,
                    retryAttempts |-> n] : n \in 0..MaxRetries}
    /\ tokenData = Null
    /\ lastMut = NoMutation
    /\ emptySet = Null
    /\ pc = "idle"
    /\ attempt = 0
    /\ lastError = Null
    /\ headers = NoHeaders
    /\ startTime = 0
    /\ result = Null
    /\ thrown = Null
    /\ transportLog = <<>>
    /\ calls = 0
    /\ sent = <<>>
    /\ held = Null
    /\ custom = NoHeaders
    /\ arg = Null
    /\ ret = Null
    /\ AuthIdle

Next ==
    \/ \E token \in Tokens, ttl \in TTLs : SetToken(token, ttl)
    \/ ClearToken
    \/ Tick
    \/ \E customHeaders \in CustomHeaders : Execute(customHeaders)
    \/ \E error \in TransportErrors : FetchFails(error)
    \/ \E response \in Responses : FetchResponds(response)
    \/ Finish

Spec == Init /\ [][Next]_vars

\* TokenManager on its own: APIClient only reads the slot (getToken), so
\* the mutators and the clock are all that can change it
NextToken ==
    \/ \E token \in Tokens, ttl \in TTLs : SetToken(token, ttl)
    \/ ClearToken
    \/ Tick

SpecToken == Init /\ [][NextToken]_vars

\* one APIClient between logins: either nobody logged in, or a login at
\* instant 0 stored a credential with the default ttl
InitCall ==
    /\ now = 0
    /\ config \in {[baseURL |-> DefaultBaseURL, timeout |-> DefaultTimeout,
                    retryAttempts |-> n] : n \in 0..MaxRetries}
    /\ \E token \in {"", "t1"} :
          /\ tokenData = setTokenData(Null, token, DefaultTTL, 0)
          /\ lastMut = recordSet(NoMutation, token, DefaultTTL, 0)
    /\ emptySet = Null
    /\ pc = "idle"
    /\ attempt = 0
    /\ lastError = Null
    /\ headers = NoHeaders
    /\ startTime = 0
    /\ result = Null
    /\ thrown = Null
    /\ transportLog = <<>>
    /\ calls = 0
    /\ sent = <<>>
    /\ held = Null
    /\ custom = NoHeaders
    /\ arg = Null
    /\ ret = Null
    /\ AuthIdle

NextCall ==
    \/ Tick
    \/ \E customHeaders \in CustomHeaders : Execute(customHeaders)
    \/ \E error \in TransportErrors : FetchFails(error)
    \/ \E response \in Responses : FetchResponds(response)
    \/ Finish

SpecCall == InitCall /\ [][NextCall]_vars

\* the state every specification of one isolated call starts from
Quiet ==
    /\ now = 0
    /\ config = [baseURL |-> DefaultBaseURL, timeout |-> DefaultTimeout,
                 retryAttempts |-> 1]
    /\ tokenData = Null
    /\ lastMut = NoMutation
    /\ emptySet = Null
    /\ pc = "idle"
    /\ attempt = 0
    /\ lastError = Null
    /\ headers = NoHeaders
    /\ startTime = 0
    /\ result = Null
    /\ thrown = Null
    /\ transportLog = <<>>
    /\ calls = 0
    /\ sent = <<>>
    /\ held = Null
    /\ custom = NoHeaders
    /\ AuthIdle

\* URL building on its own: it reads the base URL and the arguments only
InitURL ==
    /\ Quiet
    /\ arg \in {Some(i) : i \in URLInputs}
    /\ ret = Null

NextURL == BuildURL

SpecURL == InitURL /\ [][NextURL]_vars

\* the construction of the configuration from the environment
InitConfig ==
    /\ Quiet
    /\ arg \in {Some(e) : e \in Envs}
    /\ ret = Null

NextConfig == Construct

SpecConfig == InitConfig /\ [][NextConfig]_vars

\* the session: the credential is written by login and logout only, while
\* requests of this client and of another one start and finish
NextAuth ==
    \/ Login
    \/ LoginReturns
    \/ Logout
    \/ Tick
    \/ Expire
    \/ \E customHeaders \in CustomHeaders : Execute(customHeaders)
    \/ \E customHeaders \in CustomHeaders : StartElsewhere(customHeaders)
    \/ \E error \in TransportErrors : FetchFails(error)
    \/ \E response \in Responses : FetchResponds(response)
    \/ Return

SpecAuth == Init /\ [][NextAuth]_vars

\* the public methods on their own: one call (path, payload, options) each
InitPublic ==
    /\ Quiet
    /\ arg \in {Some(c) : c \in PublicCalls}
    /\ ret = Null

NextPublic == CallPublic

SpecPublic == InitPublic /\ [][NextPublic]_vars

\* schemaValidator.validate on its own: one call per schema and data
InitValidate ==
    /\ Quiet
    /\ arg \in {Some(c) : c \in ValidationCalls}
    /\ ret = Null

NextValidate == Validate

SpecValidate == InitValidate /\ [][NextValidate]_vars

(***************************************************************************)
(* Properties                                                              *)
(***************************************************************************)
Last(seq) == seq[Len(seq)]
AllFailed(log) == \A i \in 1..Len(log) : log[i].kind = "error"
Retries == config.retryAttempts

\* C1: when every transport call of an execute call fails, the call fails
\* after exactly retryAttempts + 1 transport calls: it has not failed with
\* fewer, and it makes no call beyond that number.
C1_ExactAttemptsOnPersistentFailure ==
    /\ (pc = "thrown" /\ AllFailed(transportLog))
          => (calls = Retries + 1 /\ Len(transportLog) = Retries + 1)
    /\ (AllFailed(transportLog) /\ Len(transportLog) = Retries + 1)
          => pc = "thrown"
    /\ calls <= Retries + 1

C1_Witness ==
    /\ pc = "thrown"
    /\ Retries = MaxRetries
    /\ calls = MaxRetries + 1
    /\ AllFailed(transportLog)

\* C2: after k-1 failed transport calls with k <= retryAttempts + 1 the k-th
\* call is made, and when it delivers a response execute returns an
\* APIResponse built from that response after exactly k transport calls.
C2_SuccessAfterFailures ==
    /\ (pc # "idle" /\ AllFailed(transportLog) /\ Len(transportLog) <= Retries)
          => (pc = "fetching" /\ calls = Len(transportLog) + 1)
    /\ (pc = "returned")
          => LET k == Len(transportLog)
             IN  /\ k >= 1 /\ k <= Retries + 1
                 /\ calls = k
                 /\ AllFailed(SubSeq(transportLog, 1, k - 1))
                 /\ transportLog[k].kind = "response"
                 /\ thrown = Null
                 /\ result # Null
                 /\ result[1].status = transportLog[k].status
                 /\ result[1].statusText = StatusText(transportLog[k].status)
                 /\ (result[1].data.kind = "text"
                        => result[1].data.text = transportLog[k].body)

C2_Witness ==
    /\ pc = "returned"
    /\ Retries = MaxRetries
    /\ Len(transportLog) = MaxRetries + 1
    /\ result # Null
    /\ result[1].status = 200

\* C3: the step in which the transport delivers a response, of any status,
\* ends the call: the APIResponse carries the transport's status code and no
\* further transport call is made.
C3_AnyStatusReturnedAtOnce ==
    [][\A r \in Responses :
          (/\ pc = "fetching"
           /\ transportLog' = Append(transportLog,
                  [kind |-> "response", error |-> "", status |-> r.status,
                   body |-> r.body]))
          => (/\ pc' = "returned"
              /\ result' # Null
              /\ result'[1].status = r.status
              /\ calls' = calls
              /\ thrown' = Null)]_vars

C3_Witness ==
    /\ pc = "returned"
    /\ result # Null
    /\ result[1].status = 500
    /\ Retries = MaxRetries
    /\ calls = 1

\* C4: when all retryAttempts + 1 transport calls failed, the error thrown is
\* the error of the last attempt and no APIResponse is returned.
C4_LastErrorThrown ==
    (pc = "thrown" /\ transportLog # <<>>)
       => (/\ thrown = Some(Last(transportLog).error)
           /\ Last(transportLog).kind = "error"
           /\ result = Null)

C4_Witness ==
    /\ pc = "thrown"
    /\ Len(transportLog) = 2
    /\ transportLog[1].error # transportLog[2].error
    /\ thrown = Some(transportLog[2].error)

\* C5: execute throws only when every one of its retryAttempts + 1 transport
\* calls failed; as soon as a transport call delivered a response the call has
\* returned an APIResponse.
C5_ThrowsOnlyWhenAllAttemptsFailed ==
    /\ pc = "thrown"
          => (AllFailed(transportLog) /\ Len(transportLog) = Retries + 1)
    /\ ~AllFailed(transportLog)
          => (pc = "returned" /\ result # Null /\ thrown = Null)

C5_Witness ==
    /\ pc = "returned"
    /\ Len(transportLog) = 2
    /\ transportLog[1].kind = "error"
    /\ result # Null
    /\ result[1].status = 404

\* C6: getToken() returns the stored token exactly when a credential is
\* stored and now < expiresAt, and nothing otherwise; an expired token is
\* never returned.
C6_GetTokenIffNotExpired ==
    /\ (tokenData # Null /\ now < tokenData[1].expiresAt)
          => getToken(tokenData, now) = Some(tokenData[1].token)
    /\ (tokenData = Null \/ now >= tokenData[1].expiresAt)
          => getToken(tokenData, now) = Null

C6_Witness ==
    /\ tokenData # Null
    /\ now = tokenData[1].expiresAt - 1
    /\ lastMut.at < now
    /\ getToken(tokenData, now) = Some(tokenData[1].token)

\* C7: setToken with an empty token leaves the credential slot as it was,
\* for any ttl, so getToken() returns what it returned without the call.
C7_EmptyTokenIsNoOp ==
    emptySet # Null
       => (/\ tokenData = emptySet[1]
           /\ getToken(tokenData, now) = getToken(emptySet[1], now))

C7_Witness ==
    /\ emptySet # Null
    /\ emptySet[1] # Null
    /\ tokenData # Null
    /\ getToken(tokenData, now) # Null

\* C8: the slot holds exactly the effect of the last mutation: the token of
\* the last setToken with the expiry computed from that call's time and ttl,
\* or nothing when clearToken was last.
C8_LastWriterWins ==
    /\ lastMut.op = "set"
          => tokenData = Some([token |-> lastMut.token,
                               expiresAt |-> lastMut.at + lastMut.ttl * MsPerSec])
    /\ lastMut.op \in {"clear", "none"} => tokenData = Null

C8_Witness ==
    /\ pc = "fetching"
    /\ held = Some("t1")
    /\ lastMut.op = "set"
    /\ lastMut.token = "t2"
    /\ lastMut.ttl = 1
    /\ lastMut.at = MsPerSec - 1
    /\ tokenData # Null
    /\ tokenData[1].token = "t2"

\* C9: from clearToken() until the next setToken with a non-empty token,
\* getToken() is absent, isTokenExpired() is true and getRemainingTTL() is 0.
C9_ClearedStaysCleared ==
    lastMut.op = "clear"
       => (/\ getToken(tokenData, now) = Null
           /\ isTokenExpired(tokenData, now)
           /\ getRemainingTTL(tokenData, now) = 0)

C9_Witness ==
    /\ pc = "fetching"
    /\ held # Null
    /\ lastMut.op = "clear"
    /\ emptySet # Null
    /\ now > 0

\* C10: every transport call of an execute call that started while a
\* non-expired token t was held carries Authorization: Bearer t; a call that
\* started with no token or an expired one still reaches the transport, and
\* its Authorization header is only what the caller supplied, if anything.
C10_BearerInjection ==
    pc # "idle"
       => /\ calls >= 1
          /\ Len(sent) = calls
          /\ \A i \in 1..Len(sent) :
                IF held # Null
                THEN /\ "Authorization" \in DOMAIN sent[i]
                     /\ sent[i]["Authorization"] = "Bearer " \o held[1]
                ELSE IF "Authorization" \in DOMAIN custom
                     THEN /\ "Authorization" \in DOMAIN sent[i]
                          /\ sent[i]["Authorization"] = custom["Authorization"]
                     ELSE "Authorization" \notin DOMAIN sent[i]

C10_Witness ==
    /\ pc = "fetching"
    /\ held = Some("t2")
    /\ "Authorization" \in DOMAIN custom
    /\ sent[1]["Authorization"] = "Bearer t2"

\* ---- URL building ----
\* the index of the last letter of a text that is not a slash (0 if none)
LastNonSlash(text) ==
    LET I == {i \in 1..Len(text) : text[i] # "/"}
    IN  IF I = {} THEN 0 ELSE CHOOSE i \in I : \A j \in I : j <= i
TrimRight(text) == SubSeq(text, 1, LastNonSlash(text))
DropLeadingSlash(text) ==
    IF text # <<>> /\ text[1] = "/" THEN Tail(text) ELSE text
StartsWithTwoSlashes(text) ==
    Len(text) >= 2 /\ text[1] = "/" /\ text[2] = "/"
ExampleURL == <<"h", "t", "t", "p", "s", ":", "/", "/", "a", "p", "i", ".", "e", "x", "a", "m", "p", "l", "e", ".", "c", "o", "m", "/", "o", "b", "j", "e", "c", "t", "s">>

\* C11: for a base with any number of trailing slashes and an endpoint with
\* at most one leading slash, the URL starts with the base without its
\* trailing slashes, one slash and the endpoint without its leading slash,
\* and nothing but a query follows; "https://api.example.com/" with "objects"
\* or "/objects" gives "https://api.example.com/objects".
C11_BaseAndPathJoinedByOneSlash ==
    (ret # Null /\ ~StartsWithTwoSlashes(arg[1].endpoint))
       => LET url == ret[1].url
              expected == TrimRight(arg[1].base) \o Slash
                             \o DropLeadingSlash(arg[1].endpoint)
              n == Len(expected)
          IN  /\ Len(url) >= n
              /\ SubSeq(url, 1, n) = expected
              /\ Len(url) > n => url[n + 1] = "?"
              /\ (/\ arg[1].base = ExampleHost \o Slash
                  /\ arg[1].endpoint \in {Objects, Slash \o Objects}
                  /\ paramsOf(arg[1].options) = Null)
                    => url = ExampleURL

C11_Witness ==
    /\ ret # Null
    /\ arg[1].base = ExampleHost \o Slash \o Slash
    /\ arg[1].endpoint = Objects
    /\ arg[1].options = Null
    /\ ret[1].url = ExampleURL

\* C12: for every endpoint, also one that starts with two or more slashes,
\* the path part of the URL begins with exactly one slash.
C12_PathBeginsWithExactlyOneSlash ==
    ret # Null
       => LET url == ret[1].url
              k == Len(TrimRight(arg[1].base))
          IN  /\ Len(url) >= k + 1
              /\ url[k + 1] = "/"
              /\ Len(url) >= k + 2 => url[k + 2] # "/"

\* C13: with a params object the URL is base+path, "?" and the pairs
\* key=value in insertion order with the values as strings; a bag without a
\* params key, whatever else it holds, gives exactly base+path and no "?".
ValueText(v) ==
    IF v.t = "string" THEN v.s
    ELSE CASE v.n = 1 -> <<"1">>
           [] v.n = 5 -> <<"5">>
           [] v.n = 12 -> <<"1", "2">>
PairText(e) == e.key \o <<"=">> \o ValueText(e.value)
ExpectedQuery(entries) ==
    CASE Len(entries) = 0 -> <<>>
      [] Len(entries) = 1 -> PairText(entries[1])
      [] Len(entries) = 2 ->
            PairText(entries[1]) \o <<"&">> \o PairText(entries[2])
HasParamsKey(options) == options # Null /\ options[1].params # Null
BasePlusPath(base, endpoint) ==
    TrimRight(base) \o
       (IF endpoint # <<>> /\ endpoint[1] = "/" THEN endpoint
        ELSE Slash \o endpoint)

C13_QueryOnlyFromParams ==
    ret # Null
       => LET url == ret[1].url
              bp == BasePlusPath(arg[1].base, arg[1].endpoint)
          IN  IF HasParamsKey(arg[1].options)
              THEN url = bp \o <<"?">>
                            \o ExpectedQuery(arg[1].options[1].params[1])
              ELSE /\ url = bp
                   /\ \A i \in 1..Len(url) : url[i] # "?"

C13_Witness ==
    /\ ret # Null
    /\ arg[1].options = Some(Bag(Null, PageEntries))
    /\ arg[1].endpoint = Slash \o Objects
    /\ arg[1].base = ExampleHost
    /\ ret[1].url = ExampleURL

\* ---- configuration ----
ValidBaseURLs == {"https://api.example.com/", DefaultBaseURL}
BaseURLMissingOrInvalid(env) ==
    \/ env.API_BASE_URL = Null
    \/ env.API_BASE_URL[1] \notin ValidBaseURLs
TimeoutNotPositive(env) ==
    env.API_TIMEOUT # Null /\ env.API_TIMEOUT[1] \notin {"5000"}
RetriesNegativeOrNotANumber(env) ==
    env.RETRY_ATTEMPTS # Null /\ env.RETRY_ATTEMPTS[1] \in {"abc", "-1"}

\* C14: construction throws whenever the base URL is missing or invalid, the
\* timeout is not a positive number or the retry count is negative or not a
\* number; an instance that exists has a non-empty baseURL, timeout > 0 and
\* retryAttempts >= 0.
C14_ConfigFailsFast ==
    ret # Null
       => /\ (\/ BaseURLMissingOrInvalid(arg[1])
              \/ TimeoutNotPositive(arg[1])
              \/ RetriesNegativeOrNotANumber(arg[1]))
                => ret[1].kind = "throw"
          /\ ret[1].kind = "instance"
                => LET cfg == ret[1].config[1]
                   IN  /\ cfg.baseURL # ""
                       /\ ~cfg.timeout.nan /\ cfg.timeout.n > 0
                       /\ ~cfg.retryAttempts.nan /\ cfg.retryAttempts.n >= 0

\* ---- schema validation ----
\* what a schema asks of a value: each keyword constrains the values of its
\* own JSON type, and an absent keyword asks nothing
RECURSIVE Satisfies(_, _)
Satisfies(value, schema) ==
    /\ "type" \in DOMAIN schema => value.t = schema.type
    /\ value.t = "string" =>
          /\ "minLength" \in DOMAIN schema => Len(value.s) >= schema.minLength
          /\ "maxLength" \in DOMAIN schema => Len(value.s) <= schema.maxLength
          /\ "pattern" \in DOMAIN schema => regExpTest(schema.pattern, value.s)
          /\ "enum" \in DOMAIN schema => includes(schema.enum, value.s)
    /\ value.t = "number" =>
          /\ "minimum" \in DOMAIN schema => value.n >= schema.minimum
          /\ "maximum" \in DOMAIN schema => value.n <= schema.maximum
    /\ (value.t = "array" /\ "items" \in DOMAIN schema) =>
          \A i \in 1..Len(value.items) : Satisfies(value.items[i], schema.items)
    /\ value.t = "object" =>
          /\ "required" \in DOMAIN schema =>
                \A i \in 1..Len(schema.required) :
                   schema.required[i] \in DOMAIN value.fields
          /\ "properties" \in DOMAIN schema =>
                \A i \in 1..Len(schema.properties) :
                   schema.properties[i].key \in DOMAIN value.fields =>
                      Satisfies(value.fields[schema.properties[i].key],
                                schema.properties[i].schema)

IsSchema(schema) == "isNull" \notin DOMAIN schema

\* C15: data that satisfies the schema (required fields present, every type
\* and bound met, every SchemaNode keyword optional) is reported valid with
\* no errors.
C15_SatisfyingDataIsValid ==
    (ret # Null /\ IsSchema(arg[1].schema)
        /\ Satisfies(arg[1].data, arg[1].schema))
       => ret[1].valid /\ ret[1].errors = <<>>

Errors == ret[1].errors
Located(j, step) == Errors[j].loc # <<>> /\ Errors[j].loc[1] = step

\* C16: every property of the data that violates its field schema, and every
\* missing required field, has an error of its own; an error of one property
\* never suppresses the error of another.
C16_EveryViolationReported ==
    (ret # Null /\ IsSchema(arg[1].schema) /\ arg[1].data.t = "object")
       => LET data == arg[1].data
              schema == arg[1].schema
          IN  /\ "required" \in DOMAIN schema =>
                    \A i \in 1..Len(schema.required) :
                       schema.required[i] \notin DOMAIN data.fields =>
                          \E j \in 1..Len(Errors) :
                             /\ Errors[j].kind = "missing"
                             /\ Located(j, KeyStep(schema.required[i]))
              /\ "properties" \in DOMAIN schema =>
                    \A i \in 1..Len(schema.properties) :
                       LET key == schema.properties[i].key
                       IN  (/\ key \in DOMAIN data.fields
                            /\ ~Satisfies(data.fields[key],
                                          schema.properties[i].schema))
                              => \E j \in 1..Len(Errors) :
                                    Located(j, KeyStep(key))

\* C17: under an array schema every element that violates items yields an
\* error carrying its index; { type: "array", items: { type: "number" } }
\* with [1, "x", 3] yields exactly one error, at [1].
C17_ArrayElementReportedAtItsIndex ==
    (ret # Null /\ IsSchema(arg[1].schema)
        /\ "type" \in DOMAIN arg[1].schema /\ arg[1].schema.type = "array"
        /\ "items" \in DOMAIN arg[1].schema /\ arg[1].data.t = "array")
       => /\ \A i \in 1..Len(arg[1].data.items) :
                ~Satisfies(arg[1].data.items[i], arg[1].schema.items)
                   => \E j \in 1..Len(Errors) : Located(j, IndexStep(i - 1))
          /\ (arg[1].data = Mixed /\ arg[1].schema = NumberListSchema)
                => Len(Errors) = 1 /\ Errors[1].loc = <<IndexStep(1)>>

\* the dotted path of a place in the data: keys joined by dots with no dot
\* in front, an array element as [index] behind the path of its array
DecimalOf(index) ==
    CASE index = 0 -> "0" [] index = 1 -> "1" [] index = 2 -> "2"
      [] OTHER -> "?"
RECURSIVE DottedPath(_)
DottedPath(loc) ==
    IF loc = <<>> THEN ""
    ELSE LET front == DottedPath(SubSeq(loc, 1, Len(loc) - 1))
             step == loc[Len(loc)]
         IN  IF step.index >= 0
             THEN front \o "[" \o DecimalOf(step.index) \o "]"
             ELSE IF front = "" THEN step.key
             ELSE front \o "." \o step.key

ThreePrices ==
    JObj([k \in {"items"} |->
            JArr(<<Priced(JNum(1)), Priced(JNum(2)), Priced(JStr("x"))>>)])
BadUserEmail ==
    JObj([k \in {"user", "id"} |->
            IF k = "user" THEN JObj([e \in {"email"} |-> JStr("bad")])
            ELSE JNum(1)])

\* C18: the path of an error names the place of the offending value in
\* dotted form with no leading dot, an array element by its index in
\* brackets: user.email, items[2].price.
C18_ErrorPathsAreDotted ==
    ret # Null
       => /\ \A j \in 1..Len(Errors) :
                Errors[j].kind # "exception"
                   => Errors[j].path = DottedPath(Errors[j].loc)
          /\ (arg[1].data = ThreePrices /\ arg[1].schema = CartSchema)
                => Errors = <<Error("typeMismatch", "items[2].price",
                                    <<KeyStep("items"), IndexStep(2),
                                      KeyStep("price")>>)>>
          /\ (arg[1].data = BadUserEmail /\ arg[1].schema = ProfileSchema)
                => Errors = <<Error("pattern", "user.email",
                                    <<KeyStep("user"), KeyStep("email")>>)>>

C18_Witness ==
    /\ ret # Null
    /\ arg[1].data = ThreePrices /\ arg[1].schema = CartSchema
    /\ \E j \in 1..Len(Errors) : Errors[j].path = "items[2].price"

ExceptionEntries == {j \in 1..Len(Errors) : Errors[j].kind = "exception"}
InternalThrow == validateObject(arg[1].data, arg[1].schema, "", <<>>).threw

\* C19: validate never throws; it returns valid and errors with valid true
\* exactly when errors is empty, and an exception inside the validation
\* becomes one entry of errors, its message.
C19_ValidateNeverThrows ==
    ret # Null
       => /\ ret[1].kind = "return"
          /\ ret[1].valid <=> ret[1].errors = <<>>
          /\ IF InternalThrow # Null
             THEN /\ ExceptionEntries = {Len(Errors)}
                  /\ Errors[Len(Errors)].path = InternalThrow[1].message
             ELSE ExceptionEntries = {}

C19_Witness ==
    /\ ret # Null
    /\ ret[1].kind = "return"
    /\ arg[1].data = JNull /\ arg[1].schema = UserSchema
    /\ ExceptionEntries # {}
    /\ ~ret[1].valid

\* ---- body decoding ----
IsJSON(body) == body = JsonBody

\* C20: a body that is not JSON yields data equal to the raw body text and
\* the call still succeeds; a JSON body yields the decoded value; the failed
\* decoding neither fails the call nor causes another attempt.
C20_NonJsonBodyFallsBackToText ==
    (pc = "returned" /\ transportLog # <<>>)
       => LET body == Last(transportLog).body
          IN  /\ Last(transportLog).kind = "response"
              /\ result # Null
              /\ thrown = Null
              /\ calls = Len(transportLog)
              /\ IF IsJSON(body)
                 THEN /\ result[1].data.kind = "object"
                      /\ result[1].data.token = Some("t1")
                 ELSE /\ result[1].data.kind = "text"
                      /\ result[1].data.text = body

C20_Witness ==
    /\ pc = "returned"
    /\ transportLog # <<>>
    /\ ~IsJSON(Last(transportLog).body)
    /\ Last(transportLog).status = 200
    /\ result # Null
    /\ result[1].data.text = TextBody
    /\ calls = 1

\* ---- public methods ----
HttpMethod(name) ==
    CASE name = "get" -> "GET" [] name = "post" -> "POST"
      [] name = "put" -> "PUT" [] name = "patch" -> "PATCH"
      [] name = "delete" -> "DELETE"

\* C21: get, post, put, patch and delete, called as (path, payload, options),
\* run execute with the matching HTTP method and with the path, the payload
\* and the options they were given.
C21_PublicMethodsDelegate ==
    ret # Null
       => /\ ret[1].method = HttpMethod(arg[1].name)
          /\ ret[1].endpoint = arg[1].path
          /\ ret[1].payload = arg[1].payload
          /\ ret[1].options = arg[1].options

\* ---- the session ----
HasBearer(h) ==
    /\ "Authorization" \in DOMAIN h
    /\ \E token \in Tokens : h["Authorization"] = "Bearer " \o token
LoggedInUntil == authLog.at + LoginTTL * MsPerSec

\* what the claim asks of the headers h of a request that starts now
SessionHeaders(h) ==
    /\ authLog.last = "logout" => ~HasBearer(h)
    /\ (authLog.last = "login" /\ now < LoggedInUntil)
          => /\ "Authorization" \in DOMAIN h
             /\ h["Authorization"] = "Bearer " \o authLog.token

\* C22: a request started after logout and before the next successful login
\* carries no Authorization derived from the stored token, on every APIClient
\* instance; a request started between a successful login and the next
\* logout or expiry carries Authorization: Bearer <the login token>.
C22_LogoutAndLoginGovernAuthorization ==
    [][/\ (pc = "idle" /\ pc' = "fetching") => SessionHeaders(headers')
       /\ (otherSent' # otherSent) => SessionHeaders(otherSent'[1])]_vars

C22_Witness ==
    /\ loginResult # Null
    /\ loginResult[1].kind = "returned"
    /\ authLog.last = "logout"
    /\ now \in Instants
    /\ pc = "fetching"
    /\ loginPc = "none"
    /\ custom = ("Authorization" :> "Basic abc")
    /\ sent[1]["Authorization"] = "Basic abc"
    /\ otherSent # Null
    /\ ~HasBearer(otherSent[1])

\* C26: login stores the response token with ttl 3600 s exactly when /login
\* returned status 200 with a non-empty token; otherwise (other status, no
\* token, transport failure thrown) login throws and leaves the slot as it is.
C26_LoginStoresOnlyOnSuccess ==
    [][(loginPc = "awaiting" /\ loginPc' = "none")
          => IF /\ pc = "returned"
                /\ result[1].status = 200
                /\ result[1].data.token # Null
                /\ result[1].data.token[1] # ""
             THEN /\ tokenData' =
                        Some([token |-> result[1].data.token[1],
                              expiresAt |-> now + LoginTTL * MsPerSec])
                  /\ loginResult' # Null
                  /\ loginResult'[1].kind = "returned"
             ELSE /\ tokenData' = tokenData
                  /\ loginResult' # Null
                  /\ loginResult'[1].kind = "threw"]_vars

C26_Witness ==
    /\ loginPc = "none"
    /\ loginResult # Null
    /\ loginResult[1].kind = "threw"
    /\ loginResult[1].value = "Login failed: HTTP 404"
    /\ tokenData # Null
    /\ tokenData[1].expiresAt = LoginTTL * MsPerSec
    /\ now > 0

\* the type a value is compared by: its JSON type, with "array" for an
\* array and, as typeof has it, "object" for null
TypeName(value) == IF value.t = "null" THEN "object" ELSE value.t
Mismatch(value, schema) ==
    "type" \in DOMAIN schema /\ TypeName(value) # schema.type
IsPrefix(front, loc) ==
    Len(front) <= Len(loc) /\ SubSeq(loc, 1, Len(front)) = front
ErrorsBelow(loc) == {k \in 1..Len(Errors) : IsPrefix(loc, Errors[k].loc)}
ArrayUser ==
    JObj([k \in {"user", "id"} |->
            IF k = "user" THEN JArr(<<JNum(1)>>) ELSE JNum(0)])

\* C23: a field whose value has another type than fieldSchema.type gets
\* exactly one error, the type mismatch, and none for anything below it;
\* its sibling fields are still validated.
C23_TypeMismatchStopsTheField ==
    (ret # Null /\ IsSchema(arg[1].schema) /\ arg[1].data.t = "object"
        /\ "properties" \in DOMAIN arg[1].schema)
       => LET data == arg[1].data
              properties == arg[1].schema.properties
              present == {i \in 1..Len(properties) :
                             properties[i].key \in DOMAIN data.fields}
              value(i) == data.fields[properties[i].key]
          IN  /\ \A i \in present :
                    Mismatch(value(i), properties[i].schema)
                       => /\ Cardinality(ErrorsBelow(<<KeyStep(properties[i].key)>>)) = 1
                          /\ \E k \in 1..Len(Errors) :
                                Errors[k] =
                                   Error("typeMismatch", properties[i].key,
                                         <<KeyStep(properties[i].key)>>)
                          /\ \A j \in present \ {i} :
                                ~Satisfies(value(j), properties[j].schema)
                                   => ErrorsBelow(<<KeyStep(properties[j].key)>>) # {}
              /\ \A k \in 1..Len(Errors) :
                    Errors[k].kind = "typeMismatch"
                       => ErrorsBelow(Errors[k].loc) = {k}

C23_Witness ==
    /\ ret # Null
    /\ arg[1].data = ArrayUser /\ arg[1].schema = ProfileSchema
    /\ Errors = <<Error("typeMismatch", "user", <<KeyStep("user")>>),
                  Error("belowMinimum", "id", <<KeyStep("id")>>)>>

\* the names an object level of the data has
Names(data) == IF data.t = "object" THEN DOMAIN data.fields ELSE {}
Listed(names) == {names[i] : i \in 1..Len(names)}
RequiredOf(schema) ==
    IF "required" \in DOMAIN schema THEN Listed(schema.required) ELSE {}
KeysOf(schema) ==
    IF "properties" \in DOMAIN schema
    THEN {schema.properties[i].key : i \in 1..Len(schema.properties)}
    ELSE {}

\* what C24 asks at the object level `loc`, where data meets schema
RequiredLevel(data, schema, loc) ==
    /\ \A name \in RequiredOf(schema) \ Names(data) :
          /\ ErrorsBelow(Append(loc, KeyStep(name))) # {}
          /\ \A k \in ErrorsBelow(Append(loc, KeyStep(name))) :
                /\ Errors[k] = Error("missing",
                                     DottedPath(Append(loc, KeyStep(name))),
                                     Append(loc, KeyStep(name)))
                /\ ErrorsBelow(Append(loc, KeyStep(name))) = {k}
    /\ \A key \in (KeysOf(schema) \ RequiredOf(schema)) \ Names(data) :
          ErrorsBelow(Append(loc, KeyStep(key))) = {}

OnlyIdMissing == JObj([k \in {"email"} |-> JStr("a@b.io")])

ViolatedStringRules(text, schema) ==
    (IF "minLength" \in DOMAIN schema /\ Len(text) < schema.minLength
     THEN {"tooShort"} ELSE {})
    \cup (IF "maxLength" \in DOMAIN schema /\ Len(text) > schema.maxLength
          THEN {"tooLong"} ELSE {})
    \cup (IF "pattern" \in DOMAIN schema /\ ~regExpTest(schema.pattern, text)
          THEN {"pattern"} ELSE {})
    \cup (IF "enum" \in DOMAIN schema /\ ~includes(schema.enum, text)
          THEN {"enum"} ELSE {})

\* C25: for a string value under a string field schema each of minLength,
\* maxLength, pattern and enum is checked on its own and yields one error
\* when violated, for every bound including 0: a non-empty string against
\* maxLength 0 is too long.
C25_StringRulesIndependent ==
    (ret # Null /\ IsSchema(arg[1].schema) /\ arg[1].data.t = "object"
        /\ "properties" \in DOMAIN arg[1].schema)
       => \A i \in 1..Len(arg[1].schema.properties) :
             LET key == arg[1].schema.properties[i].key
                 schema == arg[1].schema.properties[i].schema
             IN  (/\ key \in DOMAIN arg[1].data.fields
                  /\ arg[1].data.fields[key].t = "string"
                  /\ "type" \in DOMAIN schema /\ schema.type = "string")
                    => LET here == ErrorsBelow(<<KeyStep(key)>>)
                           rules == ViolatedStringRules(
                                       arg[1].data.fields[key].s, schema)
                       IN  /\ {Errors[k].kind : k \in here} = rules
                           /\ Cardinality(here) = Cardinality(rules)

\* ---- remaining time to live ----
\* C27: getRemainingTTL() is max(0, floor((expiresAt - now) / 1000)) when a
\* credential is stored and 0 when none is; it is never negative, and when
\* it is greater than 0 getToken() at the same instant returns the token.
C27_RemainingTTL ==
    LET ttl == getRemainingTTL(tokenData, now)
    IN  /\ ttl >= 0
        /\ tokenData = Null => ttl = 0
        /\ tokenData # Null =>
              LET left == tokenData[1].expiresAt - now
              IN  /\ left < 0 => ttl = 0
                  /\ left >= 0 => /\ ttl * 1000 <= left
                                  /\ left < (ttl + 1) * 1000
        /\ ttl > 0 => getToken(tokenData, now) = Some(tokenData[1].token)

C27_Witness ==
    /\ tokenData # Null
    /\ lastMut.ttl = DefaultTTL
    /\ now > lastMut.at
    /\ (tokenData[1].expiresAt - now) % 1000 # 0
    /\ getRemainingTTL(tokenData, now) = DefaultTTL - 1

\* ---- one call, one set of headers ----
\* C28: all attempts of one execute call send the same headers: TokenManager
\* is read once, before the first attempt, so a setToken, a clearToken or
\* the expiry of the token between two attempts does not change the
\* Authorization header of the later attempts.
C28_HeadersFixedPerCall ==
    pc # "idle"
       => /\ \A i \in 1..Len(sent) : sent[i] = sent[1]
          /\ pc = "fetching" => headers = sent[1]

C28_Witness ==
    /\ pc = "fetching"
    /\ Len(sent) = 2
    /\ held = Some("t1")
    /\ tokenData # Null
    /\ tokenData[1].token = "t2"
    /\ lastMut.at < startTime
    /\ sent[2]["Authorization"] = "Bearer t1"

\* ---- precedence of the headers ----
\* the defaults with the caller's entries in their place
CallerOverDefaults ==
    [k \in {"Content-Type", "Accept"} \cup DOMAIN custom |->
        IF k \in DOMAIN custom THEN custom[k] ELSE "application/json"]
ExpectedHeaders ==
    IF held # Null
    THEN [k \in DOMAIN CallerOverDefaults \cup {"Authorization"} |->
             IF k = "Authorization" THEN "Bearer " \o held[1]
             ELSE CallerOverDefaults[k]]
    ELSE CallerOverDefaults

\* C29: entries of options.headers replace the defaults Content-Type and
\* Accept; with a non-expired token held Authorization is Bearer <token>
\* even when options.headers has an Authorization entry, which is kept only
\* when no valid token is held.
C29_HeaderPrecedence ==
    pc # "idle" => (sent # <<>> /\ sent[1] = ExpectedHeaders)

C29_Witness ==
    /\ pc = "fetching"
    /\ calls = 1
    /\ custom = ("Authorization" :> "Basic abc")
    /\ tokenData # Null
    /\ lastMut.at < startTime
    /\ held = Null
    /\ sent[1] = ("Authorization" :> "Basic abc" @@
                  "Content-Type" :> "application/json" @@
                  "Accept" :> "application/json")

\* C30: a field schema without a type imposes no constraint: no error is
\* appended for the field whatever its value and whatever other keywords the
\* field schema carries; and the type of the top-level schema is never
\* checked against the top-level data.
C30_NoTypeNoConstraint ==
    (ret # Null /\ IsSchema(arg[1].schema))
       => /\ (arg[1].data.t = "object" /\ "properties" \in DOMAIN arg[1].schema)
                => \A i \in 1..Len(arg[1].schema.properties) :
                      LET key == arg[1].schema.properties[i].key
                          schema == arg[1].schema.properties[i].schema
                      IN  (/\ key \in DOMAIN arg[1].data.fields
                           /\ IsSchema(schema)
                           /\ "type" \notin DOMAIN schema)
                             => ErrorsBelow(<<KeyStep(key)>>) = {}
          /\ \A k \in 1..Len(Errors) :
                Errors[k].kind = "typeMismatch" => Errors[k].loc # <<>>
          /\ (arg[1].schema = NumberListSchema /\ arg[1].data = JObj(NoFields))
                => Errors = <<>>

C30_Witness ==
    /\ ret # Null
    /\ arg[1].schema = TypelessSchema
    /\ arg[1].data = JObj([k \in {"id"} |-> JStr("bad")])
    /\ ret[1].valid
    /\ Errors = <<>>

====
